---- MODULE Spec2Model ----
(***************************************************************************)
(* State-machine model of src/huggingface_auth.py: the retry executor      *)
(* call_with_retries, the HuggingFaceAuthorizer (get_token,                *)
(* join_experiment, _join_experiment, is_token_valid,                      *)
(* does_token_need_refreshing).                                            *)
(*                                                                         *)
(* Time is counted in whole seconds.  A text timestamp is a record         *)
(* [fmt, t]: fmt "space" is "YYYY-MM-DD HH:MM:SS", fmt "T" is              *)
(* "YYYY-MM-DDTHH:MM:SS", fmt "tz" is "YYYY-MM-DD HH:MM:SS+00:00" and fmt  *)
(* "bad" is a text datetime.fromisoformat() rejects; t is the instant.     *)
(***************************************************************************)
EXTENDS Integers, Sequences, FiniteSets, TLC

VARIABLES
    authority_public_key,   \* self._authority_public_key ("None" or a key)
    coordinator_ip,         \* self.coordinator_ip ("None" or an address)
    coordinator_port,       \* self.coordinator_port (NoPort or a port)
    local_access_token,     \* self._local_access_token (NoToken or a token)
    now,                    \* datetime.utcnow(), in seconds
    op,                     \* the entry point last called ("none" at start)
    arg,                    \* its argument: a token, func, or NoToken when it takes none
    pc,                     \* "idle", or "loop": at the head of the for loop
    i,                      \* loop index of call_with_retries
    n_retries,              \* parameter of the running call_with_retries
    initial_delay,          \* parameter of the running call_with_retries
    events,                 \* func() calls, warnings and sleeps of the call
    ret,                    \* how the last call ended: returned / raised
    entry_fresh,            \* history: get_token() was entered holding a fresh token
    threads,                \* concurrent callers of get_token(): position and locals
    observed,               \* what a concurrent reader last saw of the instance
    login                   \* authorize_with_huggingface(): position and locals

vars == <<authority_public_key, coordinator_ip, coordinator_port,
          local_access_token, now, op, arg, pc, i, n_retries, initial_delay,
          events, ret, entry_fresh, threads, observed, login>>

authState == <<authority_public_key, coordinator_ip, coordinator_port,
               local_access_token>>

\* The variables of the sequential authorizer and of the retry loop; those of
\* the concurrent callers; the rest is authorize_with_huggingface's `login`.
callVars == <<op, arg, pc, i, n_retries, initial_delay, events, ret, entry_fresh>>
threadVars == <<threads, observed>>

(***************************************************************************)
(* Bounds of the model.                                                    *)
(***************************************************************************)
MaxRetries == 4      \* n_retries of a generic call ranges over 0..MaxRetries
MaxDelay == 2        \* initial_delay of a generic call ranges over 1..MaxDelay
MaxNow == 1          \* the clock ranges over 0..MaxNow
MaxIterations == 2   \* iterations of authorize_with_huggingface's loop

(***************************************************************************)
(* Program constants.                                                      *)
(***************************************************************************)
DEFAULT_N_RETRIES == 10
DEFAULT_INITIAL_DELAY == 1
MAX_LATENCY == 60

\* Python values of a call's end.
Returned(v) == [kind |-> "returned", val |-> v]
Raised(e) == [kind |-> "raised", val |-> e]
NoRet == [kind |-> "none", val |-> "None"]

NoToken == [none |-> TRUE]
NoPort == 0

\* The callers of one instance, each idle; nothing observed; no login running.
Threads == {1, 2}
IdleThread == [pc |-> "idle", response |-> "None", returned |-> NoToken]
NoObservation == [seen |-> FALSE]
NoLogin == [pc |-> "none"]

(***************************************************************************)
(* call_with_retries                                                       *)
(***************************************************************************)
\* class NonRetriableError and its subclasses.
NonRetriableErrors ==
    {"NonRetriableError", "InvalidCredentialsError", "NotInAllowlistError"}

\* Mutant: the except clause matches the base class only, not its subclasses.
IsNonRetriable_ExactClass(exc) == exc = "NonRetriableError"

\* `except NonRetriableError` matches the class and its subclasses.
IsNonRetriable(exc) == exc \in NonRetriableErrors

RECURSIVE Pow2(_)
Pow2(k) == IF k <= 0 THEN 1 ELSE 2 * Pow2(k - 1)

\* delay = initial_delay * (2 ** i)
Delay(d, k) == d * Pow2(k)

\* The except clause of call_with_retries that an outcome of func() reaches.
OutcomeClass(out) ==
    IF out.kind = "ok" THEN "ok"
    ELSE IF IsNonRetriable(out.val) THEN "NonRetriableError"
    ELSE "Exception"

\* The callables passed as func: the warning of line 34 reads func.__name__,
\* which a function and a bound method have and a functools.partial object
\* (or an instance with __call__) has not.
Function == [callable |-> "function", has_name |-> TRUE]
BoundMethod == [callable |-> "method", has_name |-> TRUE]
Partial == [callable |-> "partial", has_name |-> FALSE]
Callables == {Function, Partial}

CallEvent(k, out) == [e |-> "call", i |-> k, class |-> OutcomeClass(out), delay |-> 0]
WarnEvent(k, d) == [e |-> "warning", i |-> k, class |-> "", delay |-> d]
SleepEvent(k, d) == [e |-> "sleep", i |-> k, class |-> "", delay |-> d]

\* Whether the failure of attempt k of n is raised rather than retried.
IsLastAttempt(k, n) == k = n - 1

\* Mutant: the warning is logged before the test for the last attempt, so the
\* final failure is warned about too.
LoopBody_WarnsBeforeLastAttemptTest(func, k, n, d, out, evs) ==
    LET called == Append(evs, CallEvent(k, out)) IN
    IF out.kind = "ok"
    THEN [pc |-> "idle", i |-> k, ret |-> Returned(out.val), events |-> called]
    ELSE IF IsNonRetriable(out.val)
    THEN [pc |-> "idle", i |-> k, ret |-> Raised(out.val), events |-> called]
    ELSE IF IsLastAttempt(k, n)
    THEN [pc |-> "idle", i |-> k, ret |-> Raised(out.val),
          events |-> Append(called, WarnEvent(k, Delay(d, k)))]
    ELSE IF ~func.has_name
    THEN [pc |-> "idle", i |-> k, ret |-> Raised("AttributeError"), events |-> called]
    ELSE [pc |-> "loop", i |-> k + 1, ret |-> NoRet,
          events |-> called \o <<WarnEvent(k, Delay(d, k)), SleepEvent(k, Delay(d, k))>>]

\* One iteration of the for loop: func() has ended with `out` at index k.
\* The result tells whether the loop goes on (pc "loop", after the warning and
\* the sleep) or call_with_retries ends (pc "idle", with its return or raise).
\* Formatting the warning raises AttributeError when func has no __name__:
\* that error leaves the except block, before the warning and the sleep.
LoopBody(func, k, n, d, out, evs) ==
    LET called == Append(evs, CallEvent(k, out)) IN
    IF out.kind = "ok"
    THEN [pc |-> "idle", i |-> k, ret |-> Returned(out.val), events |-> called]
    ELSE IF IsNonRetriable(out.val)
    THEN [pc |-> "idle", i |-> k, ret |-> Raised(out.val), events |-> called]
    ELSE IF IsLastAttempt(k, n)
    THEN [pc |-> "idle", i |-> k, ret |-> Raised(out.val), events |-> called]
    ELSE IF ~func.has_name
    THEN [pc |-> "idle", i |-> k, ret |-> Raised("AttributeError"), events |-> called]
    ELSE [pc |-> "loop", i |-> k + 1, ret |-> NoRet,
          events |-> called \o <<WarnEvent(k, Delay(d, k)), SleepEvent(k, Delay(d, k))>>]

\* range(n_retries) is exhausted (only when n_retries <= 0, since the last
\* iteration always returns or raises): the function falls off its end.
LoopExhausted(k, n) == k >= n

\* What a generic operation can do when called.
Results == {"r1", "r2"}
FuncOutcomes ==
    [kind : {"ok"}, val : Results]
        \cup [kind : {"exc"}, val : {"NonRetriableError", "InvalidCredentialsError",
                                     "ConnectionError", "ValueError"}]

Init ==
    /\ authority_public_key = "None"
    /\ coordinator_ip = "None"
    /\ coordinator_port = NoPort
    /\ local_access_token = NoToken
    /\ now = 0
    /\ op = "none"
    /\ arg = NoToken
    /\ pc = "idle"
    /\ i = 0
    /\ n_retries = 0
    /\ initial_delay = 0
    /\ events = <<>>
    /\ ret = NoRet
    /\ entry_fresh = FALSE
    /\ threads = [t \in Threads |-> IdleThread]
    /\ observed = NoObservation
    /\ login = NoLogin

\* call_with_retries(func, n, d) is entered with a generic func.
call_with_retries(func, n, d) ==
    /\ pc = "idle"
    /\ op' = "call_with_retries"
    /\ arg' = func
    /\ pc' = "loop"
    /\ i' = 0
    /\ n_retries' = n
    /\ initial_delay' = d
    /\ events' = <<>>
    /\ ret' = NoRet
    /\ UNCHANGED <<authState, now, entry_fresh>>
    /\ UNCHANGED <<threadVars, login>>

\* One iteration of the loop around a generic func that ends with `out`.
func_call(out) ==
    /\ pc = "loop"
    /\ op = "call_with_retries"
    /\ ~LoopExhausted(i, n_retries)
    /\ LET r == LoopBody(arg, i, n_retries, initial_delay, out, events) IN
        /\ pc' = r.pc
        /\ i' = r.i
        /\ ret' = r.ret
        /\ events' = r.events
    /\ UNCHANGED <<authState, now, op, arg, n_retries, initial_delay, entry_fresh>>
    /\ UNCHANGED <<threadVars, login>>

\* The for loop ends without having returned or raised: implicit return None.
loop_exit ==
    /\ pc = "loop"
    /\ LoopExhausted(i, n_retries)
    /\ pc' = "idle"
    /\ ret' = Returned("None")
    /\ UNCHANGED <<authState, now, op, arg, i, n_retries, initial_delay, events,
                   entry_fresh>>
    /\ UNCHANGED <<threadVars, login>>

NextRetry ==
    \/ \E func \in Callables, n \in 0..MaxRetries, d \in 1..MaxDelay :
          call_with_retries(func, n, d)
    \/ \E out \in FuncOutcomes : func_call(out)
    \/ loop_exit

SpecRetry == Init /\ [][NextRetry]_vars

(***************************************************************************)
(* Text, bytes, timestamps, keys and signatures.                           *)
(***************************************************************************)
\* str.encode(): the bytes of a text.
Encode(text) == [bytes |-> text]

\* datetime.fromisoformat(text): a ValueError (ok FALSE) for a text it cannot
\* parse, else the datetime, aware when the text carries a UTC offset.
FromIsoFormat(text) ==
    IF text.fmt = "bad"
    THEN [ok |-> FALSE, t |-> 0, aware |-> FALSE]
    ELSE [ok |-> TRUE, t |-> text.t, aware |-> text.fmt = "tz"]

\* str(datetime): date and time separated by a space, then the offset if aware.
DatetimeStr(dt) == [fmt |-> IF dt.aware THEN "tz" ELSE "space", t |-> dt.t]

\* Mutant: the expiration text of the response is stored as received.
NormalizeExpiration_AsReceived(text) == text

\* str(datetime.fromisoformat(text)), for a text that parses.
NormalizeExpiration(text) == DatetimeStr(FromIsoFormat(text))

\* The authority keys of the model; RSAPublicKey.from_bytes() accepts these
\* texts and raises ValueError for any other.
Keys == {"K1", "K2"}

\* f'{username} {public_key} {expiration_time}'.encode(): the bytes field is
\* formatted by its repr, which the bytes record stands for.
token_to_bytes(access_token) ==
    Encode(<<access_token.username, " ", access_token.public_key, " ",
             access_token.expiration_time>>)

\* The signature text the holder of key k's private half makes over data.
Sign(k, data) == [signer |-> k, data |-> data]

\* RSAPublicKey.verify(data, signature): whether signature was made over data
\* with the private half of key.
Verify(key, data, signature) ==
    signature.bytes.signer = key /\ signature.bytes.data = data

AccessToken(u, pk, exp, sig) ==
    [username |-> u, public_key |-> pk, expiration_time |-> exp, signature |-> sig]

(***************************************************************************)
(* is_token_valid and does_token_need_refreshing                           *)
(***************************************************************************)
\* Mutant: the expiry test is not strict (a token expiring now is invalid).
IsExpired_NotStrict(expiration_time, utcnow) == expiration_time.t <= utcnow

\* expiration_time < datetime.utcnow()
IsExpired(expiration_time, utcnow) == expiration_time.t < utcnow

\* expiration_time.tzinfo is not None
HasTimezone(expiration_time) == expiration_time.aware

\* is_token_valid(access_token) with self._authority_public_key = key at time
\* utcnow: None.verify is an AttributeError.
IsTokenValid(access_token, key, utcnow) ==
    IF key = "None" THEN Raised("AttributeError")
    ELSE IF ~Verify(key, token_to_bytes(access_token), access_token.signature)
    THEN Returned(FALSE)
    ELSE LET expiration_time == FromIsoFormat(access_token.expiration_time) IN
         IF ~expiration_time.ok THEN Returned(FALSE)
         ELSE IF HasTimezone(expiration_time) THEN Returned(FALSE)
         ELSE IF IsExpired(expiration_time, utcnow) THEN Returned(FALSE)
         ELSE Returned(TRUE)

\* Mutant: the latency margin is subtracted from the clock instead of added.
RefreshDue_MarginSubtracted(expiration_time, utcnow) ==
    expiration_time.t < utcnow - MAX_LATENCY

\* Mutant: the comparison with now + _MAX_LATENCY is not strict.
RefreshDue_NotStrict(expiration_time, utcnow) ==
    expiration_time.t <= utcnow + MAX_LATENCY

\* expiration_time < datetime.utcnow() + self._MAX_LATENCY
RefreshDue(expiration_time, utcnow) == expiration_time.t < utcnow + MAX_LATENCY

\* does_token_need_refreshing(access_token) at time utcnow: fromisoformat may
\* raise ValueError, and comparing an aware datetime with utcnow() is a
\* TypeError.
DoesTokenNeedRefreshing(access_token, utcnow) ==
    LET expiration_time == FromIsoFormat(access_token.expiration_time) IN
    IF ~expiration_time.ok THEN Raised("ValueError")
    ELSE IF expiration_time.aware THEN Raised("TypeError")
    ELSE Returned(RefreshDue(expiration_time, utcnow))

(***************************************************************************)
(* _join_experiment                                                        *)
(***************************************************************************)
Missing == [missing |-> TRUE]
PeerPublicKey == "peer-key"
Usernames == {"alice"}

\* The coordinator each authority key comes with in a response.
CoordinatorIp(k) == IF k = "K1" THEN "ip1" ELSE "ip2"
CoordinatorPort(k) == IF k = "K1" THEN 31337 ELSE 31338

\* Expiration texts of a response at time t0: now, now + 1 minute and
\* now + 1 hour, with either separator; one text with a UTC offset; one that
\* does not parse.
ResponseOffsets == {0, MAX_LATENCY, 60 * MAX_LATENCY}
ResponseExpirations(t0) ==
    [fmt : {"space", "T"}, t : {t0 + o : o \in ResponseOffsets}]
        \cup {[fmt |-> "tz", t |-> t0 + 60 * MAX_LATENCY], [fmt |-> "bad", t |-> 0]}

\* The texts an authority may have signed for an expiration it sends as exp:
\* the text as sent, or the str() of the datetime.
SignedExpirations(exp) ==
    {exp} \cup (IF exp.fmt = "bad" THEN {} ELSE {[fmt |-> IF exp.fmt = "tz" THEN "tz" ELSE "space", t |-> exp.t]})

\* The 'hivemind_access' parts a response may carry at time t0.
TokenDicts(t0) ==
    UNION {
        {[username |-> u, peer_public_key |-> PeerPublicKey, expiration_time |-> exp,
          signature |-> Sign(k, token_to_bytes(AccessToken(u, Encode(PeerPublicKey), signed, Encode(""))))]
            : k \in Keys, signed \in SignedExpirations(exp)}
        : u \in Usernames, exp \in ResponseExpirations(t0)}

Body(key, ip, port, access) ==
    [auth_server_public_key |-> key, coordinator_ip |-> ip, coordinator_port |-> port,
     hivemind_access |-> access]

EmptyBody == Body("garbage", "missing", NoPort, Missing)

\* The bodies of a 200 response: each field that makes _join_experiment fail
\* is followed by fields that are never read.
Bodies(t0) ==
    {EmptyBody}
        \cup {Body(k, "missing", NoPort, Missing) : k \in Keys}
        \cup {Body(k, CoordinatorIp(k), NoPort, Missing) : k \in Keys}
        \cup {Body(k, CoordinatorIp(k), CoordinatorPort(k), a)
                : k \in Keys, a \in {Missing} \cup TokenDicts(t0)}

\* What requests.put can end with at time t0: status 0 stands for a transport
\* failure (no response).
Responses(t0) ==
    [status : {0, 401, 403, 500}, body : {EmptyBody}]
        \cup [status : {200}, body : Bodies(t0)]

\* A function over the clock's range as an explicit table of explicit sets, so
\* that it is computed once (f @@ <<>> equals f, and {x : x \in S} equals S).
Table(f) == [t0 \in DOMAIN f |-> {x : x \in f[t0]}] @@ <<>>

\* The answers at each time of the clock's range.
ResponsesAt == Table([t0 \in 0..MaxNow |-> Responses(t0)])

\* Mutant: 403 is taken for the status of a caller outside the allowlist.
IsUnauthorized_Forbidden(status) == status = 403

\* e.response.status_code == 401
IsUnauthorized(status) == status = 401

\* Mutant: every HTTP error is taken for a permanent one.
HttpErrorOf_AlwaysPermanent(status) == "NotInAllowlistError"

\* The except clause of _join_experiment.
HttpErrorOf(status) ==
    IF IsUnauthorized(status) THEN "NotInAllowlistError" ELSE "HTTPError"

JoinResult(key, ip, port, token, out) ==
    [authority_public_key |-> key, coordinator_ip |-> ip, coordinator_port |-> port,
     local_access_token |-> token, out |-> out]

Exc(e) == [kind |-> "exc", val |-> e]
Ok(v) == [kind |-> "ok", val |-> v]

\* Mutant: the expiration is stored as the text received, without parsing it.
JoinExperiment_StoresExpirationAsText(key, ip, port, token, resp) ==
    IF resp.status = 0 THEN JoinResult(key, ip, port, token, Exc("ConnectionError"))
    ELSE IF resp.status >= 400
    THEN JoinResult(key, ip, port, token, Exc(HttpErrorOf(resp.status)))
    ELSE LET b == resp.body IN
         IF b.auth_server_public_key \notin Keys
         THEN JoinResult(key, ip, port, token, Exc("ValueError"))
         ELSE IF b.coordinator_ip = "missing"
         THEN JoinResult(b.auth_server_public_key, ip, port, token, Exc("KeyError"))
         ELSE IF b.coordinator_port = NoPort
         THEN JoinResult(b.auth_server_public_key, b.coordinator_ip, port, token,
                         Exc("KeyError"))
         ELSE IF b.hivemind_access = Missing
         THEN JoinResult(b.auth_server_public_key, b.coordinator_ip,
                         b.coordinator_port, token, Exc("KeyError"))
         ELSE JoinResult(b.auth_server_public_key, b.coordinator_ip,
                         b.coordinator_port,
                         AccessToken(b.hivemind_access.username,
                                     Encode(b.hivemind_access.peer_public_key),
                                     b.hivemind_access.expiration_time,
                                     Encode(b.hivemind_access.signature)),
                         Ok("None"))

\* _join_experiment() on the authorizer fields (key, ip, port, token) when
\* requests.put ends with resp: the fields after it and its outcome.
JoinExperiment(key, ip, port, token, resp) ==
    IF resp.status = 0 THEN JoinResult(key, ip, port, token, Exc("ConnectionError"))
    ELSE IF resp.status >= 400
    THEN JoinResult(key, ip, port, token, Exc(HttpErrorOf(resp.status)))
    ELSE LET b == resp.body IN
         IF b.auth_server_public_key \notin Keys
         THEN JoinResult(key, ip, port, token, Exc("ValueError"))
         ELSE IF b.coordinator_ip = "missing"
         THEN JoinResult(b.auth_server_public_key, ip, port, token, Exc("KeyError"))
         ELSE IF b.coordinator_port = NoPort
         THEN JoinResult(b.auth_server_public_key, b.coordinator_ip, port, token,
                         Exc("KeyError"))
         ELSE IF b.hivemind_access = Missing
         THEN JoinResult(b.auth_server_public_key, b.coordinator_ip,
                         b.coordinator_port, token, Exc("KeyError"))
         ELSE IF ~FromIsoFormat(b.hivemind_access.expiration_time).ok
         THEN JoinResult(b.auth_server_public_key, b.coordinator_ip,
                         b.coordinator_port, token, Exc("ValueError"))
         ELSE JoinResult(b.auth_server_public_key, b.coordinator_ip,
                         b.coordinator_port,
                         AccessToken(b.hivemind_access.username,
                                     Encode(b.hivemind_access.peer_public_key),
                                     NormalizeExpiration(b.hivemind_access.expiration_time),
                                     Encode(b.hivemind_access.signature)),
                         Ok("None"))

(***************************************************************************)
(* The authorizer's entry points.                                          *)
(***************************************************************************)
\* Mutant: get_token() returns the token that was held when the attempt began.
JoinIteration_ReturnsEarlierToken(who, k, evs, resp) ==
    LET j == JoinExperiment(authority_public_key, coordinator_ip, coordinator_port,
                            local_access_token, resp)
        r == LoopBody(BoundMethod, k, n_retries, initial_delay, j.out, evs)
    IN  /\ authority_public_key' = j.authority_public_key
        /\ coordinator_ip' = j.coordinator_ip
        /\ coordinator_port' = j.coordinator_port
        /\ local_access_token' = j.local_access_token
        /\ pc' = r.pc
        /\ i' = r.i
        /\ events' = r.events
        /\ ret' = IF r.ret.kind = "returned" /\ who = "get_token"
                  THEN Returned(local_access_token)
                  ELSE r.ret
        /\ UNCHANGED <<n_retries, initial_delay>>

\* One call of self._join_experiment by call_with_retries, at loop index k
\* with the log evs so far, when requests.put ends with resp.  When the loop
\* ends by a return, join_experiment() returns None and get_token() (who)
\* returns self._local_access_token.
JoinIteration(who, k, evs, resp) ==
    LET j == JoinExperiment(authority_public_key, coordinator_ip, coordinator_port,
                            local_access_token, resp)
        r == LoopBody(BoundMethod, k, n_retries, initial_delay, j.out, evs)
    IN  /\ authority_public_key' = j.authority_public_key
        /\ coordinator_ip' = j.coordinator_ip
        /\ coordinator_port' = j.coordinator_port
        /\ local_access_token' = j.local_access_token
        /\ pc' = r.pc
        /\ i' = r.i
        /\ events' = r.events
        /\ ret' = IF r.ret.kind = "returned" /\ who = "get_token"
                  THEN Returned(j.local_access_token)
                  ELSE r.ret
        /\ UNCHANGED <<n_retries, initial_delay>>

\* Whether a token is held that does_token_need_refreshing finds fresh.
HeldFresh ==
    /\ local_access_token # NoToken
    /\ DoesTokenNeedRefreshing(local_access_token, now) = Returned(FALSE)

\* call_with_retries(self._join_experiment) is entered: defaults of n_retries
\* and initial_delay, loop index 0.
EnterJoinLoop ==
    /\ pc' = "loop"
    /\ i' = 0
    /\ n_retries' = DEFAULT_N_RETRIES
    /\ initial_delay' = DEFAULT_INITIAL_DELAY
    /\ events' = <<>>
    /\ ret' = NoRet
    /\ UNCHANGED authState

\* Mutant: get_token returns the held token without a join when it is fresh.
get_token_Cached ==
    /\ pc = "idle"
    /\ op' = "get_token"
    /\ arg' = NoToken
    /\ entry_fresh' = HeldFresh
    /\ IF HeldFresh
       THEN /\ pc' = "idle"
            /\ events' = <<>>
            /\ ret' = Returned(local_access_token)
            /\ UNCHANGED <<authState, i, n_retries, initial_delay>>
       ELSE EnterJoinLoop
    /\ UNCHANGED now
    /\ UNCHANGED <<threadVars, login>>

\* Mutant: a permanent failure is final, get_token() refuses to join after it.
get_token_FailedIsFinal ==
    /\ pc = "idle"
    /\ ret # Raised("NotInAllowlistError")
    /\ op' = "get_token"
    /\ arg' = NoToken
    /\ entry_fresh' = HeldFresh
    /\ EnterJoinLoop
    /\ UNCHANGED now
    /\ UNCHANGED <<threadVars, login>>

\* get_token() is called: it calls join_experiment() whatever token is held,
\* and returns self._local_access_token when that returns (join_attempt).
get_token ==
    /\ pc = "idle"
    /\ op' = "get_token"
    /\ arg' = NoToken
    /\ entry_fresh' = HeldFresh
    /\ EnterJoinLoop
    /\ UNCHANGED now
    /\ UNCHANGED <<threadVars, login>>

\* join_experiment() is called.
join_experiment ==
    /\ pc = "idle"
    /\ op' = "join_experiment"
    /\ arg' = NoToken
    /\ entry_fresh' = FALSE
    /\ EnterJoinLoop
    /\ UNCHANGED now
    /\ UNCHANGED <<threadVars, login>>

\* One iteration of the loop of get_token() or join_experiment(): the call of
\* _join_experiment in which requests.put ends with resp, and what
\* call_with_retries does with its outcome.
join_attempt(resp) ==
    /\ pc = "loop"
    /\ op \in {"get_token", "join_experiment"}
    /\ ~LoopExhausted(i, n_retries)
    /\ JoinIteration(op, i, events, resp)
    /\ UNCHANGED <<now, op, arg, entry_fresh>>
    /\ UNCHANGED <<threadVars, login>>

\* A validator that keeps the token it was asked about.
is_token_valid_Caching(access_token) ==
    /\ pc = "idle"
    /\ op' = "is_token_valid"
    /\ arg' = access_token
    /\ ret' = IsTokenValid(access_token, authority_public_key, now)
    /\ events' = <<>>
    /\ local_access_token' = access_token
    /\ UNCHANGED <<authority_public_key, coordinator_ip, coordinator_port, now, pc,
                   i, n_retries, initial_delay, entry_fresh>>
    /\ UNCHANGED <<threadVars, login>>

\* is_token_valid(access_token)
is_token_valid(access_token) ==
    /\ pc = "idle"
    /\ op' = "is_token_valid"
    /\ arg' = access_token
    /\ ret' = IsTokenValid(access_token, authority_public_key, now)
    /\ events' = <<>>
    /\ UNCHANGED <<authState, now, pc, i, n_retries, initial_delay, entry_fresh>>
    /\ UNCHANGED <<threadVars, login>>

\* does_token_need_refreshing(access_token)
does_token_need_refreshing(access_token) ==
    /\ pc = "idle"
    /\ op' = "does_token_need_refreshing"
    /\ arg' = access_token
    /\ ret' = DoesTokenNeedRefreshing(access_token, now)
    /\ events' = <<>>
    /\ UNCHANGED <<authState, now, pc, i, n_retries, initial_delay, entry_fresh>>
    /\ UNCHANGED <<threadVars, login>>

\* A second passes on the clock.
Tick ==
    /\ now < MaxNow
    /\ now' = now + 1
    /\ UNCHANGED <<authState, op, arg, pc, i, n_retries, initial_delay, events, ret,
                   entry_fresh>>
    /\ UNCHANGED <<threadVars, login>>

\* The tokens the authorizer is asked about in Spec: the one it holds.
HeldTokens == IF local_access_token = NoToken THEN {} ELSE {local_access_token}

Next ==
    \/ get_token
    \/ join_experiment
    \/ \E resp \in ResponsesAt[now] : join_attempt(resp)
    \/ \E t \in HeldTokens : is_token_valid(t)
    \/ \E t \in HeldTokens : does_token_need_refreshing(t)
    \/ Tick

Spec == Init /\ [][Next]_vars

(***************************************************************************)
(* The validators on arbitrary tokens (SpecValidate): the authorizer is    *)
(* fresh (no authority key) or has joined an authority with key K1 or K2.  *)
(***************************************************************************)
ValidationOffsets == {-1, 0, 1, MAX_LATENCY - 1, MAX_LATENCY, MAX_LATENCY + 1}
ValidationExpirations(t0) ==
    [fmt : {"space", "T", "tz"}, t : {t0 + o : o \in ValidationOffsets}]
        \cup {[fmt |-> "bad", t |-> 0]}

\* Tokens a peer may present at time t0: signed by either key over the
\* token's own payload, or by K1 over the payload of another user's token.
PresentedTokens(t0) ==
    UNION {
        {AccessToken("alice", Encode(PeerPublicKey), exp,
                     Encode(Sign(k, token_to_bytes(AccessToken(u, Encode(PeerPublicKey), exp, Encode(""))))))
            : k \in Keys, u \in {"alice"}}
        \cup
        {AccessToken("alice", Encode(PeerPublicKey), exp,
                     Encode(Sign("K1", token_to_bytes(AccessToken("mallory", Encode(PeerPublicKey), exp, Encode(""))))))}
        : exp \in ValidationExpirations(t0)}

PresentedTokensAt == Table([t0 \in 0..MaxNow |-> PresentedTokens(t0)])

InitValidate ==
    /\ authority_public_key \in {"None"} \cup Keys
    /\ coordinator_ip = IF authority_public_key = "None" THEN "None"
                        ELSE CoordinatorIp(authority_public_key)
    /\ coordinator_port = IF authority_public_key = "None" THEN NoPort
                          ELSE CoordinatorPort(authority_public_key)
    /\ local_access_token = NoToken
    /\ now = 0
    /\ op = "none"
    /\ arg = NoToken
    /\ pc = "idle"
    /\ i = 0
    /\ n_retries = 0
    /\ initial_delay = 0
    /\ events = <<>>
    /\ ret = NoRet
    /\ entry_fresh = FALSE
    /\ threads = [t \in Threads |-> IdleThread]
    /\ observed = NoObservation
    /\ login = NoLogin

NextValidate ==
    \/ \E t \in PresentedTokensAt[now] : is_token_valid(t)
    \/ \E t \in PresentedTokensAt[now] : does_token_need_refreshing(t)
    \/ Tick

SpecValidate == InitValidate /\ [][NextValidate]_vars

(***************************************************************************)
(* Concurrent callers of one instance (SpecConcurrent).  The class holds   *)
(* no lock, get_token() awaits nothing and _join_experiment assigns the    *)
(* instance's fields one statement at a time, so callers on different      *)
(* threads interleave between statements.  The authority answers every     *)
(* request here with a well-formed response of key K1 or K2, so that each  *)
(* call_with_retries makes a single attempt and every join succeeds.       *)
(***************************************************************************)
ConcurrentExpiration == [fmt |-> "space", t |-> 60 * MAX_LATENCY]
ConcurrentResponses ==
    {[status |-> 200,
      body |-> Body(k, CoordinatorIp(k), CoordinatorPort(k),
                    [username |-> "alice", peer_public_key |-> PeerPublicKey,
                     expiration_time |-> ConcurrentExpiration,
                     signature |-> Sign(k, token_to_bytes(
                         AccessToken("alice", Encode(PeerPublicKey),
                                     ConcurrentExpiration, Encode(""))))])]
        : k \in Keys}

\* The thread moves to position p, with the response r in its local variable.
ThreadStep(t, p, r) ==
    threads' = [threads EXCEPT ![t].pc = p, ![t].response = r]

\* Thread t calls get_token(): join_experiment(), call_with_retries and
\* _join_experiment are entered and requests.put is sent.
get_token_enter(t) ==
    /\ threads[t].pc = "idle"
    /\ ThreadStep(t, "put", "None")
    /\ UNCHANGED <<authState, now, callVars, observed, login>>

\* requests.put returns to thread t; raise_for_status() and json() pass.
requests_put(t, resp) ==
    /\ threads[t].pc = "put"
    /\ ThreadStep(t, "line95", resp)
    /\ UNCHANGED <<authState, now, callVars, observed, login>>

\* self._authority_public_key = RSAPublicKey.from_bytes(...)
set_authority_public_key(t) ==
    /\ threads[t].pc = "line95"
    /\ authority_public_key' = threads[t].response.body.auth_server_public_key
    /\ ThreadStep(t, "line96", threads[t].response)
    /\ UNCHANGED <<coordinator_ip, coordinator_port, local_access_token, now,
                   callVars, observed, login>>

\* self.coordinator_ip = response['coordinator_ip']
set_coordinator_ip(t) ==
    /\ threads[t].pc = "line96"
    /\ coordinator_ip' = threads[t].response.body.coordinator_ip
    /\ ThreadStep(t, "line97", threads[t].response)
    /\ UNCHANGED <<authority_public_key, coordinator_port, local_access_token, now,
                   callVars, observed, login>>

\* self.coordinator_port = response['coordinator_port']
set_coordinator_port(t) ==
    /\ threads[t].pc = "line97"
    /\ coordinator_port' = threads[t].response.body.coordinator_port
    /\ ThreadStep(t, "line99", threads[t].response)
    /\ UNCHANGED <<authority_public_key, coordinator_ip, local_access_token, now,
                   callVars, observed, login>>

\* The token is built from the response in a local object and assigned to
\* self._local_access_token.
set_local_access_token(t) ==
    /\ threads[t].pc = "line99"
    /\ local_access_token' =
           JoinExperiment(authority_public_key, coordinator_ip, coordinator_port,
                          local_access_token, threads[t].response).local_access_token
    /\ ThreadStep(t, "return", threads[t].response)
    /\ UNCHANGED <<authority_public_key, coordinator_ip, coordinator_port, now,
                   callVars, observed, login>>

\* _join_experiment, call_with_retries and join_experiment return, and
\* get_token() returns what self._local_access_token holds by then.
get_token_return(t) ==
    /\ threads[t].pc = "return"
    /\ threads' = [threads EXCEPT ![t] = [pc |-> "idle", response |-> "None",
                                          returned |-> local_access_token]]
    /\ UNCHANGED <<authState, now, callVars, observed, login>>

\* Another thread reads the held token and asks is_token_valid about it.
reader_is_token_valid ==
    /\ local_access_token # NoToken
    /\ observed' = [seen |-> TRUE, token |-> local_access_token,
                    key |-> authority_public_key,
                    result |-> IsTokenValid(local_access_token,
                                            authority_public_key, now)]
    /\ UNCHANGED <<authState, now, callVars, threads, login>>

NextConcurrent ==
    \/ \E t \in Threads : get_token_enter(t)
    \/ \E t \in Threads : \E resp \in ConcurrentResponses : requests_put(t, resp)
    \/ \E t \in Threads : set_authority_public_key(t)
    \/ \E t \in Threads : set_coordinator_ip(t)
    \/ \E t \in Threads : set_coordinator_port(t)
    \/ \E t \in Threads : set_local_access_token(t)
    \/ \E t \in Threads : get_token_return(t)
    \/ reader_is_token_valid

SpecConcurrent == Init /\ [][NextConcurrent]_vars

(***************************************************************************)
(* authorize_with_huggingface() (SpecAuthorize).  The environment is drawn *)
(* at the start; what the user types is drawn at each iteration.  The call *)
(* authorizer.join_experiment() is taken by its end: it returns, or raises *)
(* NotInAllowlistError, or raises the transient error of its last attempt. *)
(***************************************************************************)
Unset == "None"
Unbound == [unbound |-> TRUE]
EnvOrganizations == {Unset, "env-org"}
EnvModels == {Unset, "env-model"}
EnvTokens == {Unset, "env-token"}
TypedOrganizations == {"org-a", "org-b"}
TypedModels == {"model-a"}
TypedTokens == {"token-a", "token-b"}
JoinEnds == {"ok", "NotInAllowlistError", "HTTPError", "ConnectionError",
             "KeyError", "ValueError"}

\* HuggingFaceAuthorizer(organization_name, model_name, hf_user_access_token):
\* a new instance, holding no token.
HuggingFaceAuthorizer(organization_name, model_name, hf_user_access_token) ==
    [organization_name |-> organization_name, model_name |-> model_name,
     hf_user_access_token |-> hf_user_access_token, joined |-> FALSE]

InitAuthorize ==
    /\ authority_public_key = "None"
    /\ coordinator_ip = "None"
    /\ coordinator_port = NoPort
    /\ local_access_token = NoToken
    /\ now = 0
    /\ op = "none"
    /\ arg = NoToken
    /\ pc = "idle"
    /\ i = 0
    /\ n_retries = 0
    /\ initial_delay = 0
    /\ events = <<>>
    /\ ret = NoRet
    /\ entry_fresh = FALSE
    /\ threads = [t \in Threads |-> IdleThread]
    /\ observed = NoObservation
    /\ \E org \in EnvOrganizations, model \in EnvModels, token \in EnvTokens :
          login = [pc |-> "while", iteration |-> 0,
                   env |-> [HF_ORGANIZATION_NAME |-> org, HF_MODEL_NAME |-> model,
                            HF_USER_ACCESS_TOKEN |-> token],
                   organization_name |-> Unset, model_name |-> Unset,
                   hf_user_access_token |-> Unset,
                   authorizer |-> Unbound, ret |-> NoRet]

\* The head of an iteration, down to the try: the three values are read from
\* the environment or, when unset there, typed by the user; the authorizer is
\* constructed in the branch that prompts for the token.
read_credentials(typed_organization, typed_model, typed_token) ==
    /\ login.pc = "while"
    /\ login.iteration < MaxIterations
    /\ LET organization_name == IF login.env.HF_ORGANIZATION_NAME = Unset
                                THEN typed_organization
                                ELSE login.env.HF_ORGANIZATION_NAME
           model_name == IF login.env.HF_MODEL_NAME = Unset
                         THEN typed_model ELSE login.env.HF_MODEL_NAME
           prompted == login.env.HF_USER_ACCESS_TOKEN = Unset
           hf_user_access_token == IF prompted THEN typed_token
                                   ELSE login.env.HF_USER_ACCESS_TOKEN
       IN  login' = [login EXCEPT
                        !.pc = "try",
                        !.organization_name = organization_name,
                        !.model_name = model_name,
                        !.hf_user_access_token = hf_user_access_token,
                        !.authorizer =
                            IF prompted
                            THEN HuggingFaceAuthorizer(organization_name, model_name,
                                                       hf_user_access_token)
                            ELSE login.authorizer]
    /\ UNCHANGED <<authState, now, callVars, threadVars>>

\* The try statement: authorizer.join_experiment() ends with `end`.  Reading
\* an unbound local raises UnboundLocalError, which no clause catches; the
\* two caught errors start the next iteration; any other error propagates.
try_join_experiment(end) ==
    /\ login.pc = "try"
    /\ login' =
          IF login.authorizer = Unbound
          THEN [login EXCEPT !.pc = "raised", !.ret = Raised("UnboundLocalError")]
          ELSE IF end = "ok"
          THEN [login EXCEPT !.pc = "returned",
                             !.authorizer = [login.authorizer EXCEPT !.joined = TRUE],
                             !.ret = Returned([login.authorizer EXCEPT !.joined = TRUE])]
          ELSE IF end \in {"InvalidCredentialsError", "NotInAllowlistError"}
          THEN [login EXCEPT !.pc = "while", !.iteration = login.iteration + 1]
          ELSE [login EXCEPT !.pc = "raised", !.ret = Raised(end)]
    /\ UNCHANGED <<authState, now, callVars, threadVars>>

NextAuthorize ==
    \/ \E o \in TypedOrganizations, m \in TypedModels, t \in TypedTokens :
          read_credentials(o, m, t)
    \/ \E end \in JoinEnds : try_join_experiment(end)

SpecAuthorize == InitAuthorize /\ [][NextAuthorize]_vars

(***************************************************************************)
(* Properties of call_with_retries (checked under SpecRetry).              *)
(***************************************************************************)
CallsOf(evs) == SelectSeq(evs, LAMBDA x : x.e = "call")
SleepsOf(evs) == SelectSeq(evs, LAMBDA x : x.e = "sleep")
WarningsOf(evs) == SelectSeq(evs, LAMBDA x : x.e = "warning")
LastOf(evs) == evs[Len(evs)]
RetryCallEnded == op = "call_with_retries" /\ pc = "idle" /\ ret.kind # "none"

\* C3: for every n_retries, a NonRetriableError raised by the first call of the
\* operation ends call_with_retries at once: that very error is raised, the
\* operation has been called exactly once and nothing has been slept.
C3_PermanentFailureRaisesImmediately ==
    [][\A out \in FuncOutcomes :
          (func_call(out) /\ i = 0 /\ out.kind = "exc" /\ out.val \in NonRetriableErrors)
              => /\ pc' = "idle"
                 /\ ret' = Raised(out.val)
                 /\ Len(CallsOf(events')) = 1
                 /\ Len(SleepsOf(events')) = 0
                 /\ Len(events') = 1]_vars

\* A call with room for retries that a subclass of NonRetriableError ended on
\* the first attempt.
C3_Witness ==
    /\ RetryCallEnded
    /\ n_retries >= 2
    /\ ret = Raised("InvalidCredentialsError")
    /\ Len(CallsOf(events)) = 1
    /\ Len(SleepsOf(events)) = 0

\* The log of N-1 transient failures followed by a success, with initial delay
\* d: call, warning, sleep of d * 2^k for k = 0..N-2, then the last call.
BackoffTrace(N, d) ==
    [p \in 1..(3 * (N - 1) + 1) |->
        LET k == (p - 1) \div 3
            r == (p - 1) % 3
        IN  IF r = 0
            THEN [e |-> "call", i |-> k,
                  class |-> IF k = N - 1 THEN "ok" ELSE "Exception", delay |-> 0]
            ELSE [e |-> IF r = 1 THEN "warning" ELSE "sleep", i |-> k,
                  class |-> "", delay |-> d * (2 ^ k)]]

\* C4 as stated: for every operation that fails transiently N-1 times and then
\* succeeds (N <= n_retries), each of the transient failures is slept on for
\* initial_delay * 2^k and followed by the next call, and call_with_retries
\* returns the N-th call's result after exactly N calls and N-1 sleeps, the
\* k-th sleep (from 0) lying between attempts k and k+1.
C4_Original ==
    [][\A out \in FuncOutcomes :
          /\ (func_call(out) /\ out.kind = "exc" /\ out.val \notin NonRetriableErrors
                 /\ i < n_retries - 1)
                => /\ pc' = "loop"
                   /\ i' = i + 1
                   /\ LastOf(events') = SleepEvent(i, initial_delay * (2 ^ i))
          /\ (func_call(out) /\ out.kind = "ok")
                => /\ pc' = "idle"
                   /\ ret' = Returned(out.val)
                   /\ events' = BackoffTrace(i + 1, initial_delay)
                   /\ Len(CallsOf(events')) = i + 1
                   /\ Len(SleepsOf(events')) = i
                   /\ \A k \in 1..i :
                         SleepsOf(events')[k].delay = initial_delay * (2 ^ (k - 1))]_vars

\* How call_with_retries may end, by C5: with the result of a successful call,
\* or with a failure of the last call made; when every attempt failed
\* transiently, after exactly n_retries calls and with no sleep after the last.
EndsByReturnOrRaise ==
    RetryCallEnded =>
        /\ Len(events) >= 1
        /\ LastOf(events).e = "call"
        /\ ret.kind = "returned" => LastOf(events).class = "ok" /\ ret.val \in Results
        /\ ret.kind = "raised" => LastOf(events).class # "ok"
        /\ (ret.kind = "raised" /\ LastOf(events).class = "Exception")
              => /\ Len(CallsOf(events)) = n_retries
                 /\ Len(SleepsOf(events)) = n_retries - 1

\* C5 as stated, for every n_retries: call_with_retries ends only by returning
\* the result of a successful call or by raising a failure of the operation.
C5_Original == EndsByReturnOrRaise

(***************************************************************************)
(* Properties of the authorizer (checked under Spec).                      *)
(***************************************************************************)
JoinCall == op \in {"get_token", "join_experiment"}

\* C1 as stated: get_token() performs a join request if and only if it was
\* entered with no token or with a token that needs refreshing; entered with
\* a fresh token it makes no join request.
C1_Original ==
    op = "get_token" =>
        /\ entry_fresh => Len(CallsOf(events)) = 0
        /\ (~entry_fresh /\ pc = "idle") => Len(CallsOf(events)) >= 1

\* C1, amended: get_token() performs the join exchange on every call, also
\* when it is entered holding a token that does not need refreshing: it never
\* ends without a join request, and when it returns, it returns the held
\* token, after a successful last request.
C1_GetTokenAlwaysJoins ==
    op = "get_token" =>
        /\ pc = "idle" => Len(CallsOf(events)) >= 1
        /\ (pc = "idle" /\ ret.kind = "returned")
              => /\ ret.val = local_access_token
                 /\ LastOf(events).class = "ok"
        /\ pc = "loop" => ret = NoRet

\* get_token() was entered holding a fresh token, joined all the same and
\* returned.
C1_Witness ==
    /\ op = "get_token"
    /\ entry_fresh
    /\ pc = "idle"
    /\ ret.kind = "returned"
    /\ Len(CallsOf(events)) >= 1

\* The 401 answers among the answers at each time.
UnauthorizedResponsesAt ==
    Table([t0 \in 0..MaxNow |-> {r \in ResponsesAt[t0] : r.status = 401}])

\* C2: a 401 answer ends get_token()/join_experiment() at once, at whatever
\* loop index i it comes: NotInAllowlistError is raised to the caller, the
\* request answered by 401 is the last one (i + 1 requests in all, a single
\* one when the first answer is 401) and no sleep follows it.
C2_UnauthorizedIsNotRetried ==
    [][\A resp \in UnauthorizedResponsesAt[now] :
          join_attempt(resp)
              => /\ pc' = "idle"
                 /\ ret' = Raised("NotInAllowlistError")
                 /\ events' = Append(events,
                        [e |-> "call", i |-> i, class |-> "NonRetriableError", delay |-> 0])
                 /\ Len(CallsOf(events')) = i + 1
                 /\ Len(SleepsOf(events')) = i
                 /\ i = 0 => Len(events') = 1]_vars

\* get_token() ended by NotInAllowlistError on its third request.
C2_Witness ==
    /\ op = "get_token"
    /\ pc = "idle"
    /\ ret = Raised("NotInAllowlistError")
    /\ Len(CallsOf(events)) = 3
    /\ Len(SleepsOf(events)) = 2
    /\ LastOf(events).e = "call"

\* A 200 response at time t0 that is well formed: every field present, the
\* expiration naive and one hour ahead, the token signed with the returned
\* authority key over the token's payload (expiration as str(datetime)).
WellFormedResponse(resp, t0) ==
    /\ resp.status = 200
    /\ resp.body.auth_server_public_key \in Keys
    /\ resp.body.coordinator_ip # "missing"
    /\ resp.body.coordinator_port # NoPort
    /\ resp.body.hivemind_access # Missing
    /\ LET a == resp.body.hivemind_access IN
        /\ a.expiration_time.fmt \in {"space", "T"}
        /\ a.expiration_time.t = t0 + 3600
        /\ a.signature = [signer |-> resp.body.auth_server_public_key,
                          data |-> [bytes |-> <<a.username, " ", [bytes |-> a.peer_public_key],
                                                " ", [fmt |-> "space", t |-> a.expiration_time.t]>>]]

WellFormedResponsesAt ==
    Table([t0 \in 0..MaxNow |-> {r \in ResponsesAt[t0] : WellFormedResponse(r, t0)}])

\* The token of a response: its fields, the expiration as str(datetime).
TokenOfResponse(resp) ==
    LET a == resp.body.hivemind_access IN
    [username |-> a.username, public_key |-> [bytes |-> a.peer_public_key],
     expiration_time |-> [fmt |-> "space", t |-> a.expiration_time.t],
     signature |-> [bytes |-> a.signature]]

\* C9: when a join request is answered by a well-formed 200 response, the
\* authorizer then holds exactly the token of that response and the returned
\* authority key, is_token_valid(held token) is true at once and
\* does_token_need_refreshing(held token) is false.
C9_WellFormedJoinGivesValidFreshToken ==
    [][\A resp \in WellFormedResponsesAt[now] :
          join_attempt(resp)
              => /\ local_access_token' = TokenOfResponse(resp)
                 /\ authority_public_key' = resp.body.auth_server_public_key
                 /\ IsTokenValid(local_access_token', authority_public_key', now')
                        = Returned(TRUE)
                 /\ DoesTokenNeedRefreshing(local_access_token', now') = Returned(FALSE)
                 /\ pc' = "idle"
                 /\ ret'.kind = "returned"]_vars

\* After a join, is_token_valid was asked about the held token, which expires
\* in an hour, and answered true.
C9_Witness ==
    /\ op = "is_token_valid"
    /\ arg = local_access_token
    /\ ret = Returned(TRUE)
    /\ local_access_token.expiration_time = [fmt |-> "space", t |-> now + 3600]
    /\ DoesTokenNeedRefreshing(local_access_token, now) = Returned(FALSE)
    /\ Verify(authority_public_key, token_to_bytes(local_access_token),
              local_access_token.signature)

\* A response with which _join_experiment succeeds: status 200, every field
\* present, the key and the expiration parseable.
JoinSucceeds(resp) ==
    /\ resp.status = 200
    /\ resp.body.auth_server_public_key \in Keys
    /\ resp.body.coordinator_ip # "missing"
    /\ resp.body.coordinator_port # NoPort
    /\ resp.body.hivemind_access # Missing
    /\ resp.body.hivemind_access.expiration_time.fmt # "bad"

TransientErrors == {"HTTPError", "ConnectionError", "KeyError", "ValueError"}

\* The answers other than 401 with which _join_experiment fails.
TransientFailuresAt ==
    Table([t0 \in 0..MaxNow |-> {r \in ResponsesAt[t0] : r.status # 401 /\ ~JoinSucceeds(r)}])

\* C10: every failure of a join request other than a 401 answer is retried
\* after a sleep of 2^i seconds, until the 10th request; the call returns as
\* soon as a request succeeds; the failure is raised to the caller only when
\* the 10th request fails.
C10_TransientJoinFailuresAreRetried ==
    /\ [][\A resp \in TransientFailuresAt[now] :
             join_attempt(resp)
                 => IF i < 9
                    THEN /\ pc' = "loop"
                         /\ i' = i + 1
                         /\ events' = events \o
                              <<[e |-> "call", i |-> i, class |-> "Exception", delay |-> 0],
                                [e |-> "warning", i |-> i, class |-> "", delay |-> 2 ^ i],
                                [e |-> "sleep", i |-> i, class |-> "", delay |-> 2 ^ i]>>
                    ELSE /\ pc' = "idle"
                         /\ ret'.kind = "raised"
                         /\ ret'.val \in TransientErrors
                         /\ Len(CallsOf(events')) = 10]_vars
    /\ [](JoinCall => n_retries = 10 /\ initial_delay = 1 /\ i \in 0..9)
    /\ []((JoinCall /\ Len(events) >= 1 /\ LastOf(events).class = "ok")
            => pc = "idle" /\ ret.kind = "returned")
    /\ []((JoinCall /\ pc = "idle" /\ ret.kind = "raised" /\ ret.val # "NotInAllowlistError")
            => /\ ret.val \in TransientErrors
               /\ Len(CallsOf(events)) = 10
               /\ Len(SleepsOf(events)) = 9)

\* get_token() raised the HTTP error of its 10th request, after nine sleeps,
\* the last of 256 seconds.
C10_Witness ==
    /\ op = "get_token"
    /\ pc = "idle"
    /\ ret = Raised("HTTPError")
    /\ Len(CallsOf(events)) = 10
    /\ Len(SleepsOf(events)) = 9
    /\ SleepsOf(events)[9].delay = 256

(***************************************************************************)
(* Properties of the validators (checked under SpecValidate).              *)
(***************************************************************************)
\* The conditions of C6 on token T with authority key `key` at time t0: the
\* signature verifies over the payload of T, the expiration parses, carries
\* no timezone and is not before t0.
ValidityConditions(T, key, t0) ==
    /\ Verify(key, token_to_bytes(T), T.signature)
    /\ T.expiration_time.fmt # "bad"
    /\ T.expiration_time.fmt # "tz"
    /\ ~(T.expiration_time.t < t0)

\* C6: with an authority key held, is_token_valid(T) returns a boolean, and
\* returns true exactly when the signature of T verifies under the held key
\* over T's payload, the expiration parses, has no timezone and is not
\* strictly before now (an expiration equal to now is valid).
C6_IsTokenValidIff ==
    [][\A T \in PresentedTokensAt[now] :
          (is_token_valid(T) /\ authority_public_key # "None")
              => /\ ret'.kind = "returned"
                 /\ ret' = Returned(ValidityConditions(T, authority_public_key, now))]_vars

\* A token expiring exactly now was found valid.
C6_Witness ==
    /\ op = "is_token_valid"
    /\ authority_public_key # "None"
    /\ ret = Returned(TRUE)
    /\ arg.expiration_time.fmt \in {"space", "T"}
    /\ arg.expiration_time.t = now

\* C7 as stated: is_token_valid never throws; in every state of the
\* authorizer, also before any join has set the authority key, it returns a
\* boolean.
C7_Original ==
    op = "is_token_valid" => ret.kind = "returned" /\ ret.val \in BOOLEAN

\* C8: does_token_need_refreshing(T) returns true exactly when T has a naive
\* parseable expiration that is strictly before now + 60 seconds; for every
\* such token it returns a boolean; at expiration = now + 60 s it returns
\* false, one second earlier true, one second later false.
C8_NeedsRefreshIff ==
    [][\A T \in PresentedTokensAt[now] :
          does_token_need_refreshing(T)
              => LET x == T.expiration_time
                     naive == x.fmt \in {"space", "T"}
                 IN  /\ (ret' = Returned(TRUE)) <=> (naive /\ x.t < now + 60)
                     /\ naive => ret' = Returned(x.t < now + 60)
                     /\ (naive /\ x.t = now + 60) => ret' = Returned(FALSE)
                     /\ (naive /\ x.t = now + 59) => ret' = Returned(TRUE)
                     /\ (naive /\ x.t = now + 61) => ret' = Returned(FALSE)]_vars

\* The boundary: a token expiring at now + 60 s was found not to need
\* refreshing.
C8_Witness ==
    /\ op = "does_token_need_refreshing"
    /\ ret = Returned(FALSE)
    /\ arg.expiration_time.fmt \in {"space", "T"}
    /\ arg.expiration_time.t = now + 60

\* C11: is_token_valid and does_token_need_refreshing are pure: for every
\* token and every state of the authorizer, whatever they return or raise, a
\* call of either makes no join request and leaves the held token, the
\* authority public key and the coordinator address unchanged.
C11_ValidatorsArePure ==
    [][\A T \in PresentedTokensAt[now] :
          (is_token_valid(T) \/ does_token_need_refreshing(T))
              => /\ UNCHANGED authState
                 /\ pc' = "idle"
                 /\ CallsOf(events') = <<>>]_vars

\* does_token_need_refreshing has raised on a token with a UTC offset, and
\* the authorizer still has the key and the coordinator of its authority.
C11_Witness ==
    /\ op = "does_token_need_refreshing"
    /\ ret = Raised("TypeError")
    /\ authority_public_key = "K1"
    /\ coordinator_ip = CoordinatorIp("K1")
    /\ coordinator_port = CoordinatorPort("K1")
    /\ local_access_token = NoToken

(***************************************************************************)
(* Claims about the authorizer's state (Spec).                             *)
(***************************************************************************)
\* The func() call that a step of the retry loop has added to the log.
CallOfStep == events'[Len(events) + 1]
JoinAttemptStep == JoinCall /\ pc = "loop" /\ Len(events') > Len(events)

\* C12 as stated: the authority key, the coordinator address and the held
\* token are modified only by a join attempt that succeeds; an attempt that
\* fails at any point (HTTP error, transport failure, or a 200 answer whose
\* token part is missing or malformed) leaves all of them unchanged.
C12_Original ==
    [][authState' # authState
          => JoinAttemptStep /\ CallOfStep.class = "ok"]_vars

(***************************************************************************)
(* Claims about concurrent callers (SpecConcurrent).                       *)
(***************************************************************************)
InFlight == {t \in Threads : threads[t].pc # "idle"}

\* A reader has seen a token next to a key that did not sign it.
TornPairObserved == observed.seen /\ observed.result # Returned(TRUE)

\* C13 as stated: a reader running concurrently with an in-flight join never
\* observes a token paired with the authority key of another response (the
\* pair is updated atomically as seen by readers), and no two joins of the
\* same instance are in flight at once.
C13_Original ==
    /\ ~TornPairObserved
    /\ Cardinality(InFlight) <= 1

(***************************************************************************)
(* More claims about the authorizer's state (Spec).                        *)
(***************************************************************************)
\* The answers with which _join_experiment succeeds, at each time.
SucceedingResponsesAt ==
    Table([t0 \in 0..MaxNow |-> {r \in ResponsesAt[t0] : JoinSucceeds(r)}])

\* The token whose four fields all come from resp: the texts encoded, the
\* expiration as the str() of the datetime it denotes.
TokenBuiltFrom(resp) ==
    LET a == resp.body.hivemind_access IN
    [username |-> a.username, public_key |-> [bytes |-> a.peer_public_key],
     expiration_time |-> [fmt |-> IF a.expiration_time.fmt = "tz" THEN "tz" ELSE "space",
                          t |-> a.expiration_time.t],
     signature |-> [bytes |-> a.signature]]

\* C14: the held token is replaced only by a join attempt that succeeds, and
\* then whole: whatever is held, the attempt answered by a succeeding response
\* stores the token whose four fields all come from that response; that
\* attempt is the last of its call, and get_token() returns that very token.
\* An attempt that fails leaves the held token as it was, so a get_token()
\* that raises, none of whose attempts succeeded, leaves it unchanged.
C14_TokenReplacedWholeBySuccessfulJoin ==
    /\ [](JoinCall /\ pc = "loop"
            => \A resp \in SucceedingResponsesAt[now] :
                  LET j == JoinExperiment(authority_public_key, coordinator_ip,
                                          coordinator_port, local_access_token, resp)
                  IN  j.out.kind = "ok" /\ j.local_access_token = TokenBuiltFrom(resp))
    /\ [](JoinCall /\ pc = "idle" /\ ret.kind = "raised"
            => \A k \in 1..Len(events) : events[k].class # "ok")
    /\ [][local_access_token' # local_access_token
            => /\ JoinAttemptStep
               /\ CallOfStep.class = "ok"
               /\ pc' = "idle"
               /\ local_access_token' # NoToken
               /\ ret' = IF op = "get_token" THEN Returned(local_access_token')
                                             ELSE Returned("None")]_vars
    /\ [][(JoinAttemptStep /\ op = "get_token" /\ ret'.kind = "returned")
            => CallOfStep.class = "ok" /\ ret' = Returned(local_access_token')]_vars

\* A get_token() of an authorizer that held a token has failed at its tenth
\* attempt, and the token is still held.
C14_Witness ==
    /\ op = "get_token"
    /\ pc = "idle"
    /\ ret.kind = "raised"
    /\ ret.val \in TransientErrors
    /\ Len(CallsOf(events)) = DEFAULT_N_RETRIES
    /\ local_access_token # NoToken

\* C15: the authorizer never goes from holding a token back to holding none:
\* once a join has succeeded, a token and an authority public key are held
\* after every later step, whatever fails; and no failure is final: whenever
\* no call is running, also right after a permanent failure, get_token() can
\* be called and enters the join loop again.
C15_AuthenticatedNeverReverts ==
    /\ [][/\ local_access_token # NoToken => local_access_token' # NoToken
          /\ authority_public_key # "None" => authority_public_key' \in Keys]_vars
    /\ [](local_access_token # NoToken => authority_public_key \in Keys)
    /\ [](pc = "idle" => ENABLED get_token)
    /\ [][(pc = "idle" /\ ret = Raised("NotInAllowlistError") /\ op' = "get_token"
             /\ pc' = "loop")
            => i' = 0 /\ n_retries' = DEFAULT_N_RETRIES /\ events' = <<>>]_vars

\* An authorizer holding a token and a key has been refused by a later
\* get_token() with a permanent failure.
C15_Witness ==
    /\ op = "get_token"
    /\ pc = "idle"
    /\ ret = Raised("NotInAllowlistError")
    /\ local_access_token # NoToken
    /\ authority_public_key \in Keys

(***************************************************************************)
(* More claims about call_with_retries (SpecRetry).                        *)
(***************************************************************************)
\* C16: call_with_retries logs exactly one warning per retried attempt: every
\* attempt that is followed by another one failed transiently and is followed
\* at once by one warning and then by the sleep, the warning carrying that
\* sleep's delay; every warning and every sleep occurs so, hence as many
\* warnings as sleeps; an attempt that succeeds, fails permanently or is the
\* last one is the end of the log, with no warning after it.  (An attempt is
\* retried when it fails transiently before the last and func has a
\* __name__; without one the call ends there with AttributeError, unwarned.)
C16_OneWarningPerRetry ==
    op = "call_with_retries" =>
        /\ Len(WarningsOf(events)) = Len(SleepsOf(events))
        /\ \A p \in 1..Len(events) :
              LET x == events[p] IN
              /\ (x.e = "call" /\ p < Len(events)) =>
                    /\ x.class = "Exception" /\ ~IsLastAttempt(x.i, n_retries)
                    /\ p + 2 <= Len(events)
                    /\ events[p + 1] = WarnEvent(x.i, Delay(initial_delay, x.i))
                    /\ events[p + 2] = SleepEvent(x.i, Delay(initial_delay, x.i))
              /\ (x.e = "call" /\ x.class = "Exception"
                    /\ ~IsLastAttempt(x.i, n_retries)) =>
                    IF arg.has_name
                    THEN p < Len(events)
                    ELSE p = Len(events) /\ pc = "idle"
                           /\ ret = Raised("AttributeError")
              /\ (x.e = "call" /\ (x.class # "Exception"
                                      \/ IsLastAttempt(x.i, n_retries))) =>
                    p = Len(events)
              /\ x.e = "warning" =>
                    /\ p > 1 /\ events[p - 1].e = "call"
                    /\ p < Len(events) /\ events[p + 1].e = "sleep"
                    /\ events[p + 1].delay = x.delay
              /\ x.e = "sleep" => p > 1 /\ events[p - 1].e = "warning"

\* Every attempt of the longest call failed transiently: the failure of the
\* last one was raised, with one warning less than attempts.
C16_Witness ==
    /\ RetryCallEnded
    /\ ret.kind = "raised"
    /\ n_retries = MaxRetries
    /\ Len(CallsOf(events)) = MaxRetries
    /\ Len(WarningsOf(events)) = MaxRetries - 1
    /\ LastOf(events).e = "call"

(***************************************************************************)
(* Claims about the held token's expiration (Spec).                        *)
(***************************************************************************)
\* The 200 answers complete in every field whose expiration does not parse.
UnparseableExpirationResponsesAt ==
    Table([t0 \in 0..MaxNow |->
              {r \in ResponsesAt[t0] :
                  /\ r.status = 200
                  /\ r.body.auth_server_public_key \in Keys
                  /\ r.body.coordinator_ip # "missing"
                  /\ r.body.coordinator_port # NoPort
                  /\ r.body.hivemind_access # Missing
                  /\ r.body.hivemind_access.expiration_time.fmt = "bad"}])

\* C17: the expiration of every held token parses as an ISO timestamp.  A 200
\* answer whose expiration does not parse fails the attempt with ValueError
\* before the token is stored: the held token stays, and the failure is
\* retried as a transient one (raised only at the last attempt).  Hence
\* does_token_need_refreshing on the held token never raises ValueError.
C17_HeldExpirationParses ==
    /\ [](local_access_token # NoToken
            => /\ FromIsoFormat(local_access_token.expiration_time).ok
               /\ DoesTokenNeedRefreshing(local_access_token, now) # Raised("ValueError"))
    /\ [](op = "does_token_need_refreshing" => ret # Raised("ValueError"))
    /\ [][\A resp \in UnparseableExpirationResponsesAt[now] :
            join_attempt(resp)
                => /\ local_access_token' = local_access_token
                   /\ CallOfStep.class = "Exception"
                   /\ IF IsLastAttempt(i, n_retries)
                      THEN pc' = "idle" /\ ret' = Raised("ValueError")
                      ELSE pc' = "loop" /\ i' = i + 1 /\ ret' = NoRet]_vars

\* A join that received an unparseable expiration at each of its ten attempts
\* has raised ValueError, and the token held from before still parses.
C17_Witness ==
    /\ JoinCall
    /\ pc = "idle"
    /\ ret = Raised("ValueError")
    /\ Len(CallsOf(events)) = DEFAULT_N_RETRIES
    /\ local_access_token # NoToken
    /\ FromIsoFormat(local_access_token.expiration_time).ok

(***************************************************************************)
(* More claims about the validators (SpecValidate).                        *)
(***************************************************************************)
\* C18: refreshing is always due before expiry.  For every token with a
\* naive parseable expiration and every clock value: when
\* does_token_need_refreshing(T) returns false, T is not expired under
\* is_token_valid's test at that instant nor at any instant of the next 60
\* seconds (so is_token_valid accepts it throughout, if its signature
\* verifies); and when is_token_valid's test finds T expired,
\* does_token_need_refreshing(T) is true.
C18_RefreshDueBeforeExpiry ==
    [][\A T \in PresentedTokensAt[now] :
          LET x == FromIsoFormat(T.expiration_time)
              signed == /\ authority_public_key # "None"
                        /\ Verify(authority_public_key, token_to_bytes(T), T.signature)
          IN
          /\ (does_token_need_refreshing(T) /\ ret' = Returned(FALSE))
                => \A d \in 0..MAX_LATENCY :
                      /\ ~IsExpired(x, now + d)
                      /\ signed => IsTokenValid(T, authority_public_key, now + d)
                                      = Returned(TRUE)
          /\ (is_token_valid(T) /\ x.ok /\ ~x.aware /\ IsExpired(x, now))
                => /\ DoesTokenNeedRefreshing(T, now) = Returned(TRUE)
                   /\ authority_public_key # "None" => ret' = Returned(FALSE)]_vars

\* A token was found not to need refreshing that is_token_valid still
\* accepts 60 seconds on, and no longer one second after that.
C18_Witness ==
    /\ op = "does_token_need_refreshing"
    /\ ret = Returned(FALSE)
    /\ authority_public_key # "None"
    /\ IsTokenValid(arg, authority_public_key, now + MAX_LATENCY) = Returned(TRUE)
    /\ IsTokenValid(arg, authority_public_key, now + MAX_LATENCY + 1) = Returned(FALSE)

(***************************************************************************)
(* Claims about authorize_with_huggingface (SpecAuthorize).                *)
(***************************************************************************)
\* C19 as stated: in every iteration, join_experiment() is called on an
\* authorizer constructed from the credentials collected in that iteration,
\* whether the token came from HF_USER_ACCESS_TOKEN or from the prompt; and
\* the function returns only an authorizer whose join succeeded.
C19_Original ==
    /\ login.pc = "try"
          => /\ login.authorizer # Unbound
             /\ login.authorizer =
                    HuggingFaceAuthorizer(login.organization_name, login.model_name,
                                          login.hf_user_access_token)
    /\ login.pc = "raised" => login.ret # Raised("UnboundLocalError")
    /\ login.pc = "returned" => login.ret.val.joined

====
